---- MODULE Spec2Model ----
(***************************************************************************)
(* A model of pircolate's message tokenizer (src/src/message/parser.rs)    *)
(* and of the accessors of Message (src/src/message/mod.rs, src/src/tag.rs,*)
(* src/src/command/mod.rs).                                                *)
(*                                                                         *)
(* A line is a sequence of byte values.  Positions and ranges are 0-based  *)
(* and half-open, as in the Rust source; At and Slice convert to TLA+'s    *)
(* 1-based sequences.  Option<T> is a sequence of length 0 (None) or 1     *)
(* (Some).                                                                 *)
(***************************************************************************)
EXTENDS Integers, Sequences, FiniteSets, TLC

\* parse_message: the line, the phase, and the parts of the Record so far.
VARIABLES input, pc, position, tags, prefix, command, arguments, result
\* Message::command::<T>() and Message::tag::<T>(): the shape asked for, the
\* value returned, and how often T::parse was invoked by the call.
VARIABLES shape, outcome, parse_calls
\* A view (ArgumentIter or TagIter) and the calls made on it.
VARIABLES view, calls, last_item
\* ArcSlice: the atomic counter, the handles, and the backing buffer.
VARIABLES count, handles, freed, observed
\* The position of a parse followed iteration by iteration.
VARIABLES scan

parserVars == <<input, pc, position, tags, prefix, command, arguments, result>>
extractVars == <<shape, outcome, parse_calls>>
iterVars == <<view, calls, last_item>>
arcVars == <<count, handles, freed, observed>>
scanVars == <<scan>>

vars == <<parserVars, extractVars, iterVars, arcVars, scanVars>>

(***************************************************************************)
(* Bytes the tokenizer tests for, and the other bytes of the alphabet.     *)
(***************************************************************************)
AT == 64
COLON == 58
SPACE == 32
SEMI == 59
EQUALS == 61
BANG == 33
LetterA == 97
LetterB == 98
\* The two bytes C3 B0 are one character; each alone is invalid UTF-8.
LeadC3 == 195
ContB0 == 176

\* Bounds of the input families.
MaxLen == 4
MaxUtf8Len == 3
MaxTagLen == 7
MaxPrefixLen == 5
MaxArgLen == 5
MaxTailLen == 2

None == <<>>
Some(x) == <<x>>
IsSome(o) == Len(o) = 1
Unwrap(o) == o[1]

\* std::ops::Range<usize>
Range(s, e) == [start |-> s, end |-> e]

\* input[i]
At(s, i) == s[i + 1]

\* &message[range]
Slice(s, r) == SubSeq(s, r.start + 1, r.end)

\* Results of the scanning loops that are not a position.
EOF == -1
PANIC == -2

(***************************************************************************)
(* std::str::from_utf8: the well-formed byte sequences of Unicode 3.9,     *)
(* table 3-7.                                                              *)
(***************************************************************************)
IsCont(b) == b >= 128 /\ b <= 191

RECURSIVE Utf8Valid(_, _)
Utf8Valid(s, i) ==
    LET len == Len(s)
        b0 == At(s, i)
        cont(k) == i + k < len /\ IsCont(At(s, i + k))
    IN IF i >= len THEN TRUE
       ELSE IF b0 < 128 THEN Utf8Valid(s, i + 1)
       ELSE IF b0 >= 194 /\ b0 <= 223
            THEN cont(1) /\ Utf8Valid(s, i + 2)
       ELSE IF b0 >= 224 /\ b0 <= 239
            THEN /\ cont(1) /\ cont(2)
                 /\ (b0 = 224 => At(s, i + 1) >= 160)
                 /\ (b0 = 237 => At(s, i + 1) <= 159)
                 /\ Utf8Valid(s, i + 3)
       ELSE IF b0 >= 240 /\ b0 <= 244
            THEN /\ cont(1) /\ cont(2) /\ cont(3)
                 /\ (b0 = 240 => At(s, i + 1) >= 144)
                 /\ (b0 = 244 => At(s, i + 1) <= 143)
                 /\ Utf8Valid(s, i + 4)
       ELSE FALSE

from_utf8_unchecked(s) == TRUE

from_utf8(s) == Utf8Valid(s, 0)

(***************************************************************************)
(* parser.rs                                                               *)
(***************************************************************************)
\* ParseResult<T>: Ok((value, position)) or Err.
Ok(v, p) == [err |-> "none", value |-> v, position |-> p]
Err(code) ==
    [err |-> IF code = EOF THEN "UnexpectedEndOfInput" ELSE "panic",
     value |-> None, position |-> 0]

move_next_unchecked(value, bound) == value + 1

move_next_stuck(value, bound) ==
    IF value + 1 >= bound THEN EOF ELSE value

move_next_length_limited(value, bound) ==
    IF value + 1 >= bound \/ value + 1 >= 4 THEN EOF ELSE value + 1

move_next_off_by_one(value, bound) ==
    IF value + 1 > bound THEN EOF ELSE value + 1

move_next(value, bound) ==
    IF value + 1 >= bound THEN EOF ELSE value + 1

\* The conditions of the scanning loops.
key_continues_no_semi(b) == b # EQUALS
key_continues(b) == b # EQUALS /\ b # SEMI
value_continues(b) == b # SEMI /\ b # SPACE
origin_continues(b) == b # SPACE /\ b # BANG /\ b # AT
user_continues_through_at(b) == b # SPACE
user_continues(b) == b # SPACE /\ b # AT
host_continues(b) == b # SPACE

\* while input[position] != b'=' && input[position] != b';' { ... }
\* An index at or past the end of the slice panics.
RECURSIVE key_loop(_, _)
key_loop(s, p) ==
    IF p >= Len(s) THEN PANIC
    ELSE IF ~key_continues(At(s, p)) THEN p
    ELSE IF At(s, p) = SPACE THEN EOF
    ELSE LET n == move_next(p, Len(s))
         IN IF n < 0 THEN n ELSE key_loop(s, n)

RECURSIVE value_loop(_, _)
value_loop(s, p) ==
    IF p >= Len(s) THEN PANIC
    ELSE IF ~value_continues(At(s, p)) THEN p
    ELSE LET n == move_next(p, Len(s))
         IN IF n < 0 THEN n ELSE value_loop(s, n)

value_range_always_some(value_start, p) == Some(Range(value_start, p))

\* if value_start == position { None } else { Some(value_start..position) }
value_range_of(value_start, p) ==
    IF value_start = p THEN None ELSE Some(Range(value_start, p))

\* The loop of parse_tags; every read after a scanning loop is at the
\* position the loop last read, hence in bounds.
RECURSIVE tags_loop(_, _, _)
tags_loop(s, p, acc) ==
    LET len == Len(s)
        key_start == p
        p1 == key_loop(s, p)
    IN IF p1 < 0 THEN Err(p1)
       ELSE
       LET key_range == Range(key_start, p1)
           p2 == IF At(s, p1) = EQUALS THEN move_next(p1, len) ELSE p1
       IN IF p2 < 0 THEN Err(p2)
          ELSE
          LET value_start == p2
              p3 == value_loop(s, p2)
          IN IF p3 < 0 THEN Err(p3)
             ELSE
             LET value_range == value_range_of(value_start, p3)
                 pushed == Append(acc, [key |-> key_range, value |-> value_range])
                 p4 == move_next(p3, len)
             IN IF p4 < 0 THEN Err(p4)
                ELSE IF At(s, p3) = SPACE THEN Ok(Some(pushed), p4)
                ELSE tags_loop(s, p4, pushed)

parse_tags(s) ==
    IF Len(s) = 0 THEN Err(EOF)
    ELSE IF At(s, 0) = AT
         THEN LET p == move_next(0, Len(s))
              IN IF p < 0 THEN Err(p) ELSE tags_loop(s, p, <<>>)
         ELSE Ok(None, 0)

RECURSIVE origin_loop(_, _)
origin_loop(s, p) ==
    IF p >= Len(s) THEN PANIC
    ELSE IF ~origin_continues(At(s, p)) THEN p
    ELSE LET n == move_next(p, Len(s))
         IN IF n < 0 THEN n ELSE origin_loop(s, n)

RECURSIVE user_loop(_, _)
user_loop(s, p) ==
    IF p >= Len(s) THEN PANIC
    ELSE IF ~user_continues(At(s, p)) THEN p
    ELSE LET n == move_next(p, Len(s))
         IN IF n < 0 THEN n ELSE user_loop(s, n)

RECURSIVE host_loop(_, _)
host_loop(s, p) ==
    IF p >= Len(s) THEN PANIC
    ELSE IF ~host_continues(At(s, p)) THEN p
    ELSE LET n == move_next(p, Len(s))
         IN IF n < 0 THEN n ELSE host_loop(s, n)

PrefixRange_raw_is_origin(prefix_start, p, prefix_range, user_range, host_range) ==
    [raw_prefix |-> prefix_range, prefix |-> prefix_range,
     user |-> user_range, host |-> host_range]

\* PrefixRange { raw_prefix: prefix_start..position, prefix, user, host }
PrefixRange(prefix_start, p, prefix_range, user_range, host_range) ==
    [raw_prefix |-> Range(prefix_start, p), prefix |-> prefix_range,
     user |-> user_range, host |-> host_range]

\* The optional '@host' part and the end of parse_prefix.
prefix_host(s, prefix_start, prefix_range, user_range, p) ==
    LET len == Len(s) IN
    IF At(s, p) = AT
    THEN LET h == move_next(p, len)
         IN IF h < 0 THEN Err(h)
            ELSE LET e == host_loop(s, h)
                 IN IF e < 0 THEN Err(e)
                    ELSE LET q == move_next(e, len)
                         IN IF q < 0 THEN Err(q)
                            ELSE Ok(Some(PrefixRange(prefix_start, e, prefix_range,
                                                     user_range, Some(Range(h, e)))), q)
    ELSE LET q == move_next(p, len)
         IN IF q < 0 THEN Err(q)
            ELSE Ok(Some(PrefixRange(prefix_start, p, prefix_range,
                                     user_range, None)), q)

\* The optional '!user' part.
prefix_user(s, prefix_start, prefix_range, p) ==
    IF At(s, p) = BANG
    THEN LET u == move_next(p, Len(s))
         IN IF u < 0 THEN Err(u)
            ELSE LET e == user_loop(s, u)
                 IN IF e < 0 THEN Err(e)
                    ELSE prefix_host(s, prefix_start, prefix_range,
                                     Some(Range(u, e)), e)
    ELSE prefix_host(s, prefix_start, prefix_range, None, p)

parse_prefix(s, p) ==
    IF p >= Len(s) THEN Err(EOF)
    ELSE IF At(s, p) = COLON
         THEN LET prefix_start == move_next(p, Len(s))
              IN IF prefix_start < 0 THEN Err(prefix_start)
                 ELSE LET e == origin_loop(s, prefix_start)
                      IN IF e < 0 THEN Err(e)
                         ELSE prefix_user(s, prefix_start,
                                          Range(prefix_start, e), e)
         ELSE Ok(None, p)

\* while position < len && input[position] != b' ' { position += 1; }
RECURSIVE command_loop(_, _)
command_loop(s, p) ==
    IF p < Len(s) /\ At(s, p) # SPACE THEN command_loop(s, p + 1) ELSE p

\* if input[0] == b' ' { position += 1 }
command_skip(s, p) == IF At(s, 0) = SPACE THEN p + 1 ELSE p

parse_command(s, p) ==
    IF p >= Len(s) THEN Err(EOF)
    ELSE LET command_start == command_skip(s, p)
             e == command_loop(s, command_start)
             command_range == Range(command_start, e)
         IN IF e < Len(s) /\ At(s, e) = SPACE
            THEN LET q == move_next(e, Len(s))
                 IN IF q < 0 THEN Err(q) ELSE Ok(command_range, q)
            ELSE Ok(command_range, e)

\* if input[position] == b':' { position += 1; args.push(position..len); break; }
starts_trailing(s, p) == At(s, p) = COLON
trailing_arg_keeps_colon(p, len) == Range(p, len)
trailing_arg(p, len) == Range(p + 1, len)

RECURSIVE args_loop(_, _, _, _)
args_loop(s, p, arg_start, args) ==
    LET len == Len(s) IN
    IF starts_trailing(s, p)
    THEN Ok(Some(Append(args, trailing_arg(p, len))), p + 1)
    ELSE LET isSpace == At(s, p) = SPACE
             args1 == IF isSpace THEN Append(args, Range(arg_start, p)) ELSE args
             start1 == IF isSpace THEN p + 1 ELSE arg_start
             p1 == p + 1
         IN IF p1 >= len
            THEN Ok(Some(Append(args1, Range(start1, p1))), p1)
            ELSE args_loop(s, p1, start1, args1)

parse_args(s, p) ==
    IF p >= Len(s) THEN Ok(None, p) ELSE args_loop(s, p, p, <<>>)

(***************************************************************************)
(* message/mod.rs, tag.rs, command/mod.rs: the Record and its accessors.   *)
(***************************************************************************)
\* Message { message, tags, prefix, command, arguments }
Message(m, t, p, c, a) ==
    [message |-> m, tags |-> t, prefix |-> p, command |-> c, arguments |-> a]

\* ArgumentIter { source, iter }: iter is the slice iterator's remaining ranges.
ArgumentIter(source, iter) == [source |-> source, iter |-> iter]

ArgumentIter_next(it) ==
    IF it.iter = <<>> THEN [item |-> None, it |-> it]
    ELSE [item |-> Some(Slice(it.source, Head(it.iter))),
          it |-> [it EXCEPT !.iter = Tail(@)]]

\* TagIter { source, iter }
TagIter(source, iter) == [source |-> source, iter |-> iter]

TagIter_item(source, t) ==
    [key |-> Slice(source, t.key),
     value |-> IF IsSome(t.value) THEN Some(Slice(source, Unwrap(t.value))) ELSE None]

TagIter_next(it) ==
    IF it.iter = <<>> THEN [item |-> None, it |-> it]
    ELSE [item |-> Some(TagIter_item(it.source, Head(it.iter))),
          it |-> [it EXCEPT !.iter = Tail(@)]]

\* Iterator::collect::<Vec<_>>() on the two views.
RECURSIVE collect_args(_)
collect_args(it) ==
    LET r == ArgumentIter_next(it)
    IN IF IsSome(r.item) THEN <<Unwrap(r.item)>> \o collect_args(r.it) ELSE <<>>

RECURSIVE collect_tags(_)
collect_tags(it) ==
    LET r == TagIter_next(it)
    IN IF IsSome(r.item) THEN <<Unwrap(r.item)>> \o collect_tags(r.it) ELSE <<>>

raw_tags(m) ==
    IF IsSome(m.tags) THEN TagIter(m.message, Unwrap(m.tags))
    ELSE TagIter(m.message, <<>>)

raw_args_without_empty(m) ==
    LET filled(r) == r.start < r.end
    IN IF IsSome(m.arguments)
       THEN ArgumentIter(m.message, SelectSeq(Unwrap(m.arguments), filled))
       ELSE ArgumentIter(m.message, <<>>)

raw_args_shared_cursor(m) ==
    IF IsSome(view) /\ Unwrap(view).kind = "args" THEN Unwrap(view).it
    ELSE IF IsSome(m.arguments) THEN ArgumentIter(m.message, Unwrap(m.arguments))
    ELSE ArgumentIter(m.message, <<>>)

raw_args(m) ==
    IF IsSome(m.arguments) THEN ArgumentIter(m.message, Unwrap(m.arguments))
    ELSE ArgumentIter(m.message, <<>>)

raw_command(m) == Slice(m.message, m.command)

raw_prefix(m) ==
    IF IsSome(m.prefix) THEN Some(Slice(m.message, Unwrap(m.prefix).raw_prefix))
    ELSE None

\* Message::prefix: (origin, user?, host?)
prefix_of(m) ==
    IF IsSome(m.prefix)
    THEN LET pr == Unwrap(m.prefix)
         IN Some([origin |-> Slice(m.message, pr.prefix),
                  user |-> IF IsSome(pr.user)
                           THEN Some(Slice(m.message, Unwrap(pr.user))) ELSE None,
                  host |-> IF IsSome(pr.host)
                           THEN Some(Slice(m.message, Unwrap(pr.host))) ELSE None])
    ELSE None

(***************************************************************************)
(* The lines handed to parse_message.                                      *)
(***************************************************************************)
Strings(alphabet, n) == UNION {[1..k -> alphabet] : k \in 0..n}

Ascii == {AT, COLON, SPACE, SEMI, EQUALS, BANG, LetterA}

\* Every line of at most MaxLen bytes over the delimiters and one letter.
FreeLines == Strings(Ascii, MaxLen)

\* Short lines with multi-byte, truncated and invalid UTF-8.
Utf8Lines == Strings({AT, COLON, SPACE, LetterA, LeadC3, ContB0}, MaxUtf8Len)

\* What follows the tag section or the prefix.
Tails == Strings({LetterA, SPACE}, MaxTailLen)

\* '@' tag-section ' ' tail
TagLines ==
    {<<AT>> \o t \o <<SPACE>> \o r :
        t \in Strings({LetterA, EQUALS, SEMI}, MaxTagLen), r \in Tails}

\* [tag-section ' '] ':' prefix ' ' tail
PrefixLines ==
    {h \o <<COLON>> \o p \o <<SPACE>> \o r :
        h \in {<<>>, <<AT, LetterA, EQUALS, LetterA, SPACE>>},
        p \in Strings({LetterA, BANG, AT}, MaxPrefixLen), r \in Tails}

\* command ' ' argument-section, with two-byte characters
ArgLines ==
    {<<LetterB, SPACE>> \o r :
        r \in Strings({LetterA, SPACE, COLON, LeadC3, ContB0}, MaxArgLen)}

Lines == FreeLines \cup Utf8Lines \cup TagLines \cup PrefixLines \cup ArgLines

(***************************************************************************)
(* parse_message as a state machine: one step per phase.                   *)
(***************************************************************************)
\* No extraction asked for, no view taken, no ArcSlice constructed.
NoExtract == shape = "none" /\ outcome = None /\ parse_calls = 0
NoView ==
    /\ view = None
    /\ calls = [front |-> 0, back |-> 0, last |-> "none"]
    /\ last_item = None
NoArc ==
    /\ count = 0
    /\ handles = <<>>
    /\ freed = 0
    /\ observed = {}

\* parse_message is entered with the line s.
NoScan ==
    scan = [at |-> "idle", p |-> 0, from |-> 0, iters |-> 0, total |-> 0,
            steps |-> 0, result |-> "pending"]

Entered(s) ==
    /\ input = s
    /\ pc = "from_utf8"
    /\ position = 0
    /\ tags = None
    /\ prefix = None
    /\ command = Range(0, 0)
    /\ arguments = None
    /\ result = "pending"

Init ==
    /\ \E s \in Lines : Entered(s)
    /\ NoExtract
    /\ NoView
    /\ NoArc
    /\ NoScan

\* let _ = std::str::from_utf8(message.as_ref())?;
Validate ==
    /\ pc = "from_utf8"
    /\ IF from_utf8(input)
       THEN pc' = "parse_tags" /\ result' = result
       ELSE pc' = "done" /\ result' = "Utf8Error"
    /\ UNCHANGED <<input, position, tags, prefix, command, arguments>>
    /\ UNCHANGED <<extractVars, iterVars, arcVars, scanVars>>

\* let (tags, position) = parse_tags(input)?;
ParseTags ==
    /\ pc = "parse_tags"
    /\ LET r == parse_tags(input)
       IN IF r.err = "none"
          THEN /\ tags' = r.value
               /\ position' = r.position
               /\ pc' = "parse_prefix"
               /\ result' = result
          ELSE /\ result' = r.err
               /\ pc' = "done"
               /\ UNCHANGED <<tags, position>>
    /\ UNCHANGED <<input, prefix, command, arguments>>
    /\ UNCHANGED <<extractVars, iterVars, arcVars, scanVars>>

\* let (prefix, position) = parse_prefix(input, position)?;
ParsePrefix ==
    /\ pc = "parse_prefix"
    /\ LET r == parse_prefix(input, position)
       IN IF r.err = "none"
          THEN /\ prefix' = r.value
               /\ position' = r.position
               /\ pc' = "parse_command"
               /\ result' = result
          ELSE /\ result' = r.err
               /\ pc' = "done"
               /\ UNCHANGED <<prefix, position>>
    /\ UNCHANGED <<input, tags, command, arguments>>
    /\ UNCHANGED <<extractVars, iterVars, arcVars, scanVars>>

\* let (command, position) = parse_command(input, position)?;
ParseCommand ==
    /\ pc = "parse_command"
    /\ LET r == parse_command(input, position)
       IN IF r.err = "none"
          THEN /\ command' = r.value
               /\ position' = r.position
               /\ pc' = "parse_args"
               /\ result' = result
          ELSE /\ result' = r.err
               /\ pc' = "done"
               /\ UNCHANGED <<command, position>>
    /\ UNCHANGED <<input, tags, prefix, arguments>>
    /\ UNCHANGED <<extractVars, iterVars, arcVars, scanVars>>

\* let (args, _) = parse_args(input, position)?; Ok(Message { .. })
ParseArgs ==
    /\ pc = "parse_args"
    /\ LET r == parse_args(input, position)
       IN IF r.err = "none"
          THEN /\ arguments' = r.value
               /\ position' = r.position
               /\ result' = "Ok"
          ELSE /\ result' = r.err
               /\ UNCHANGED <<arguments, position>>
    /\ pc' = "done"
    /\ UNCHANGED <<input, tags, prefix, command>>
    /\ UNCHANGED <<extractVars, iterVars, arcVars, scanVars>>

Next == Validate \/ ParseTags \/ ParsePrefix \/ ParseCommand \/ ParseArgs

Spec == Init /\ [][Next]_vars

\* The Record returned by parse_message, once it has returned Ok.
Returned == pc = "done" /\ result = "Ok"
Failed(e) == pc = "done" /\ result = e
msg == Message(input, tags, prefix, command, arguments)

TypeOK ==
    /\ pc \in {"from_utf8", "parse_tags", "parse_prefix", "parse_command",
               "parse_args", "done"}
    /\ result \in {"pending", "Ok", "UnexpectedEndOfInput", "Utf8Error", "panic"}
    /\ (pc = "done") = (result # "pending")

(***************************************************************************)
(* The grammar of a line, stated on the text of the line.                  *)
(***************************************************************************)
Least(S) == CHOOSE i \in S : \A j \in S : i <= j

\* The position of the first byte of B at or after from, Len(s) if none.
FirstAt(s, from, B) ==
    LET hits == {i \in from..(Len(s) - 1) : At(s, i) \in B}
    IN IF hits = {} THEN Len(s) ELSE Least(hits)

Sub(s, a, b) == SubSeq(s, a + 1, b)
Has(s, b) == \E i \in 1..Len(s) : s[i] = b
Count(s, b) == Cardinality({i \in 1..Len(s) : s[i] = b})

RECURSIVE SplitOn(_, _)
SplitOn(s, sep) ==
    LET k == FirstAt(s, 0, {sep})
    IN IF k = Len(s) THEN <<s>>
       ELSE <<Sub(s, 0, k)>> \o SplitOn(Sub(s, k + 1, Len(s)), sep)

StartsWith(s, b) == Len(s) > 0 /\ s[1] = b

\* The tag section: the text between the leading '@' and the first space.
HasTagSection(s) == StartsWith(s, AT)
TagSectionEnd(s) == FirstAt(s, 0, {SPACE})
TagSection(s) == Sub(s, 1, TagSectionEnd(s))
TagElements(s) == SplitOn(TagSection(s), SEMI)
ElementKey(el) == Sub(el, 0, FirstAt(el, 0, {EQUALS}))
ElementValue(el) == Sub(el, FirstAt(el, 0, {EQUALS}) + 1, Len(el))

\* The line without its tag section and the space that ends it.
AfterTags(s) ==
    IF HasTagSection(s)
    THEN Sub(s, TagSectionEnd(s) + 1, Len(s))
    ELSE s

\* The prefix: the text between a ':' that opens AfterTags and the first space.
HasPrefix(s) == StartsWith(AfterTags(s), COLON)
PrefixText(s) == Sub(AfterTags(s), 1, FirstAt(AfterTags(s), 0, {SPACE}))
AfterPrefix(s) ==
    IF HasPrefix(s)
    THEN Sub(AfterTags(s), FirstAt(AfterTags(s), 0, {SPACE}) + 1, Len(AfterTags(s)))
    ELSE AfterTags(s)

\* A line of text: a string, not an arbitrary byte sequence.
IsText(s) == from_utf8(s)

Words(s) == SplitOn(s, SPACE)
AllWords(ws, P(_)) == \A i \in 1..Len(ws) : P(ws[i])
PlainWord(w) == w # <<>> /\ ~StartsWith(w, COLON)
ColonFreeWord(w) == w # <<>> /\ ~Has(w, COLON)

(***************************************************************************)
(* C1..C5                                                                  *)
(***************************************************************************)
\* 'CMD t1 ... tn', n >= 1: non-empty words that do not begin with ':',
\* and no tag section.
C1_Line(s) ==
    /\ IsText(s)
    /\ Len(Words(s)) >= 2
    /\ AllWords(Words(s), PlainWord)
    /\ ~HasTagSection(s)

\* C1: a ':' in the middle of a token is ordinary data: for a line
\* 'CMD t1 ... tn' whose tokens do not begin with ':', raw_args() yields
\* exactly [t1, ..., tn].
C1_MidTokenColonIsData ==
    (pc = "done" /\ C1_Line(input)) =>
        /\ result = "Ok"
        /\ collect_args(raw_args(msg)) = Tail(Words(input))

\* 'CMD a1 ... an :T': the first ':' of the line follows a space, and the
\* text before that space is non-empty words free of ':'.
C2_Marker(s) == FirstAt(s, 0, {COLON})
C2_Head(s) == Words(Sub(s, 0, C2_Marker(s) - 1))
C2_Trailing(s) == Sub(s, C2_Marker(s) + 1, Len(s))
C2_Line(s) ==
    /\ IsText(s)
    /\ C2_Marker(s) < Len(s)
    /\ C2_Marker(s) >= 2
    /\ At(s, C2_Marker(s) - 1) = SPACE
    /\ AllWords(C2_Head(s), ColonFreeWord)
    /\ ~HasTagSection(s)

\* C2: for a line 'CMD a1 ... an :T' parse_message succeeds, raw_command()
\* is CMD and raw_args() yields exactly [a1, ..., an, T], T being the text
\* from just after the ':' marker to the end of the buffer.
C2_RoundTrip ==
    (pc = "done" /\ C2_Line(input)) =>
        /\ result = "Ok"
        /\ raw_command(msg) = Head(C2_Head(input))
        /\ collect_args(raw_args(msg)) =
               Tail(C2_Head(input)) \o <<C2_Trailing(input)>>

\* A middle argument and a trailing argument with a space and a further ':'.
C2_Witness ==
    /\ Returned
    /\ C2_Line(input)
    /\ Len(C2_Head(input)) >= 2
    /\ Has(C2_Trailing(input), SPACE)
    /\ Has(C2_Trailing(input), COLON)

\* C3: for every successfully parsed line that begins with '@', raw_tags()
\* yields one pair per ';'-separated element of the tag section, in input
\* order; the key is the element up to its first '=', a present value is
\* the element's text after its first '='.
C3_TagsFollowElements ==
    (Returned /\ HasTagSection(input)) =>
        LET got == collect_tags(raw_tags(msg))
            els == TagElements(input)
        IN /\ Len(got) = Count(TagSection(input), SEMI) + 1
           /\ Len(got) = Len(els)
           /\ \A i \in 1..Len(got) :
                /\ got[i].key = ElementKey(els[i])
                /\ IsSome(got[i].value) =>
                       Unwrap(got[i].value) = ElementValue(els[i])

\* Several elements, one without '=' and one whose value contains a '='.
C3_Witness ==
    /\ Returned
    /\ HasTagSection(input)
    /\ Len(TagElements(input)) >= 3
    /\ \E i \in 1..Len(TagElements(input)) : ~Has(TagElements(input)[i], EQUALS)
    /\ \E i \in 1..Len(TagElements(input)) :
           Count(TagElements(input)[i], EQUALS) >= 2

\* '@...;k CMD': the last element of the tag section is a non-empty key
\* without '=', the elements before it have a '=', and one command follows.
C4_Line(s) ==
    LET els == TagElements(s)
    IN /\ HasTagSection(s)
       /\ TagSectionEnd(s) < Len(s)
       /\ els[Len(els)] # <<>>
       /\ ~Has(els[Len(els)], EQUALS)
       /\ \A i \in 1..(Len(els) - 1) : Has(els[i], EQUALS)
       /\ Words(AfterTags(s)) = <<AfterTags(s)>>
       /\ ColonFreeWord(AfterTags(s))

\* C4: a tag section whose last element is a bare key ('@k CMD',
\* '@a=1;k CMD') is accepted; the Record has that tag with key k and an
\* absent value, and command CMD.
C4_BareLastKeyAccepted ==
    (pc = "done" /\ C4_Line(input)) =>
        LET got == collect_tags(raw_tags(msg))
            els == TagElements(input)
        IN /\ result = "Ok"
           /\ Len(got) = Len(els)
           /\ got[Len(got)] = [key |-> els[Len(els)], value |-> None]
           /\ raw_command(msg) = AfterTags(input)

\* C5: no tag value returned by raw_tags() is the empty string; a value is
\* present exactly when at least one byte lies between the element's first
\* '=' and the next ';' or space, so 'key', 'key=' before ';' and 'key='
\* before the terminating space yield an absent value.
C5_NoEmptyTagValue ==
    (Returned /\ HasTagSection(input)) =>
        LET got == collect_tags(raw_tags(msg))
            els == TagElements(input)
        IN \A i \in 1..Len(got) :
              /\ IsSome(got[i].value) => Unwrap(got[i].value) # <<>>
              /\ i <= Len(els) =>
                    (IsSome(got[i].value) <=>
                        (Has(els[i], EQUALS) /\ ElementValue(els[i]) # <<>>))

\* 'k', 'k=' before ';', 'k=' before the space, and a tag with a value.
C5_Bare(el) == el # <<>> /\ ~Has(el, EQUALS)
C5_EmptyValue(el) == Len(el) >= 2 /\ el[Len(el)] = EQUALS /\ Count(el, EQUALS) = 1
C5_Witness ==
    LET els == TagElements(input)
    IN /\ Returned
       /\ HasTagSection(input)
       /\ Len(els) >= 3
       /\ C5_EmptyValue(els[Len(els)])
       /\ \E i \in 1..(Len(els) - 1) : C5_EmptyValue(els[i])
       /\ \E i \in 1..(Len(els) - 1) : C5_Bare(els[i])

(***************************************************************************)
(* C6..C10                                                                 *)
(***************************************************************************)
\* C6 as stated: raw_prefix() is the origin component of prefix(), also
\* when the prefix carries a '!user' or '@host' part.
C6_RawPrefixIsOrigin ==
    (Returned /\ IsSome(msg.prefix)) =>
        Unwrap(raw_prefix(msg)) = Unwrap(prefix_of(msg)).origin

\* C6 (amended): raw_prefix() is the whole prefix, the text after the
\* leading ':' up to the first space, '!user' and '@host' included; it is
\* the origin component of prefix() exactly when the prefix has neither.
C6_RawPrefixIsWholePrefix ==
    (Returned /\ IsSome(msg.prefix)) =>
        /\ HasPrefix(input)
        /\ Unwrap(raw_prefix(msg)) = PrefixText(input)
        /\ (Unwrap(raw_prefix(msg)) = Unwrap(prefix_of(msg)).origin) <=>
               (~Has(PrefixText(input), BANG) /\ ~Has(PrefixText(input), AT))

\* A prefix with origin, user and host, after a tag section.
C6_Witness ==
    /\ Returned
    /\ HasTagSection(input)
    /\ IsSome(msg.prefix)
    /\ IsSome(Unwrap(msg.prefix).user)
    /\ IsSome(Unwrap(msg.prefix).host)
    /\ Unwrap(raw_prefix(msg)) # Unwrap(prefix_of(msg)).origin

\* ':O[!U][@H]': at most one '!' and one '@', the '!' before the '@'.
C7_Shape(p) ==
    /\ Count(p, BANG) <= 1
    /\ Count(p, AT) <= 1
    /\ (Has(p, BANG) /\ Has(p, AT)) => FirstAt(p, 0, {BANG}) < FirstAt(p, 0, {AT})
C7_Origin(p) == Sub(p, 0, FirstAt(p, 0, {BANG, AT}))
C7_User(p) ==
    IF Has(p, BANG)
    THEN Some(Sub(p, FirstAt(p, 0, {BANG}) + 1, FirstAt(p, 0, {AT})))
    ELSE None
C7_Host(p) ==
    IF Has(p, AT) THEN Some(Sub(p, FirstAt(p, 0, {AT}) + 1, Len(p))) ELSE None

\* C7: for a line ':O[!U][@H] CMD...', optionally after a tag section,
\* prefix() is (O, user, host) with user = Some(U) exactly when a '!'
\* follows the origin and host = Some(H) exactly when an '@' follows the
\* origin or the user; a line whose first byte after the optional tag
\* section is not ':' has prefix() = None.
C7_PrefixParts ==
    Returned =>
        /\ (HasPrefix(input) /\ C7_Shape(PrefixText(input))) =>
               prefix_of(msg) = Some([origin |-> C7_Origin(PrefixText(input)),
                                      user |-> C7_User(PrefixText(input)),
                                      host |-> C7_Host(PrefixText(input))])
        /\ ~HasPrefix(input) => prefix_of(msg) = None

\* Origin, user and host all present and non-empty, after a tag section.
C7_Witness ==
    /\ Returned
    /\ HasTagSection(input)
    /\ HasPrefix(input)
    /\ C7_Shape(PrefixText(input))
    /\ C7_Origin(PrefixText(input)) # <<>>
    /\ IsSome(C7_User(PrefixText(input)))
    /\ Unwrap(C7_User(PrefixText(input))) # <<>>
    /\ IsSome(C7_Host(PrefixText(input)))
    /\ Unwrap(C7_Host(PrefixText(input))) # <<>>

\* The truncated inputs of C8.
C8_TagsUnterminated(s) == HasTagSection(s) /\ ~Has(s, SPACE)
C8_TagsEndLine(s) == HasTagSection(s) /\ TagSectionEnd(s) = Len(s) - 1
C8_PrefixTruncated(s) ==
    /\ HasPrefix(s)
    /\ FirstAt(AfterTags(s), 0, {SPACE}) >= Len(AfterTags(s)) - 1
C8_Truncated(s) ==
    \/ s = <<>>
    \/ C8_TagsUnterminated(s)
    \/ C8_TagsEndLine(s)
    \/ C8_PrefixTruncated(s)

\* C8 as stated: every truncated input fails with UnexpectedEndOfInput.
C8_TruncationIsEndOfInput ==
    (pc = "done" /\ C8_Truncated(input)) => result = "UnexpectedEndOfInput"

\* C8 (amended): every truncated input that is valid UTF-8 fails with
\* UnexpectedEndOfInput and never yields a Record.
C8_TruncatedTextIsEndOfInput ==
    (pc = "done" /\ IsText(input) /\ C8_Truncated(input)) =>
        result = "UnexpectedEndOfInput"

\* A prefix, after a tag section, whose terminating space ends the line.
C8_Witness ==
    /\ Failed("UnexpectedEndOfInput")
    /\ IsText(input)
    /\ HasTagSection(input)
    /\ IsSome(tags)
    /\ ~C8_TagsUnterminated(input)
    /\ ~C8_TagsEndLine(input)
    /\ C8_PrefixTruncated(input)
    /\ Len(PrefixText(input)) >= 1

OnlySpaces(s) == \A i \in 1..Len(s) : s[i] = SPACE

\* C9: parse_message fails with UnexpectedEndOfInput for the empty line
\* and for every line that consists only of spaces once the optional tag
\* section and prefix are removed (' ' and '   ' included).
C9_BlankLineIsEndOfInput ==
    (pc = "done" /\ IsText(input) /\ OnlySpaces(AfterPrefix(input))) =>
        result = "UnexpectedEndOfInput"

\* C10: every Record returned by parse_message has a raw_command() that is
\* a non-empty substring of the line without a space, also when the prefix
\* or tag section is followed by more than one space.
C10_CommandPresent ==
    Returned =>
        /\ 0 <= command.start /\ command.start <= command.end
        /\ command.end <= Len(input)
        /\ raw_command(msg) # <<>>
        /\ ~Has(raw_command(msg), SPACE)

(***************************************************************************)
(* C11..C12                                                                *)
(***************************************************************************)
\* Malformed UTF-8, stated on the bytes of a line made of ASCII bytes,
\* two-byte lead bytes (C2..DF) and continuation bytes (80..BF): a lead
\* byte without a continuation byte after it, or a continuation byte
\* without a lead byte before it.
IsLead2(b) == b >= 194 /\ b <= 223
ShortCharsOnly(s) ==
    \A i \in 1..Len(s) : s[i] < 128 \/ IsLead2(s[i]) \/ IsCont(s[i])
Malformed(s) ==
    \E i \in 1..Len(s) :
        \/ IsLead2(s[i]) /\ (i = Len(s) \/ ~IsCont(s[i + 1]))
        \/ IsCont(s[i]) /\ (i = 1 \/ ~IsLead2(s[i - 1]))

\* C11: every byte sequence that is not valid UTF-8 fails with the
\* encoding error, never with UnexpectedEndOfInput and never with a
\* Record, also when the bytes are truncated as well.
C11_EncodingErrorFirst ==
    (pc = "done" /\ ShortCharsOnly(input) /\ Malformed(input)) =>
        result = "Utf8Error"

\* '@', an invalid byte and no space: truncated and malformed at once.
C11_Witness ==
    /\ Failed("Utf8Error")
    /\ Malformed(input)
    /\ C8_TagsUnterminated(input)

Delimiters == {SPACE, SEMI, EQUALS, AT, BANG, COLON}

\* 0, len, or an index next to an ASCII delimiter byte.
AtDelimiter(s, i) ==
    \/ i = 0
    \/ i = Len(s)
    \/ i > 0 /\ i <= Len(s) /\ At(s, i - 1) \in Delimiters
    \/ i >= 0 /\ i < Len(s) /\ At(s, i) \in Delimiters

\* str::is_char_boundary
IsCharBoundary(s, i) == i = 0 \/ i = Len(s) \/ (i < Len(s) /\ ~IsCont(At(s, i)))

SafeRange(s, r) ==
    /\ 0 <= r.start /\ r.start <= r.end /\ r.end <= Len(s)
    /\ AtDelimiter(s, r.start) /\ AtDelimiter(s, r.end)
    /\ IsCharBoundary(s, r.start) /\ IsCharBoundary(s, r.end)

SafeOption(s, o) == IsSome(o) => SafeRange(s, Unwrap(o))

\* Every range stored in the Record.
RecordRangesSafe(m) ==
    /\ SafeRange(m.message, m.command)
    /\ IsSome(m.tags) =>
          \A i \in 1..Len(Unwrap(m.tags)) :
              /\ SafeRange(m.message, Unwrap(m.tags)[i].key)
              /\ SafeOption(m.message, Unwrap(m.tags)[i].value)
    /\ IsSome(m.prefix) =>
          /\ SafeRange(m.message, Unwrap(m.prefix).raw_prefix)
          /\ SafeRange(m.message, Unwrap(m.prefix).prefix)
          /\ SafeOption(m.message, Unwrap(m.prefix).user)
          /\ SafeOption(m.message, Unwrap(m.prefix).host)
    /\ IsSome(m.arguments) =>
          \A i \in 1..Len(Unwrap(m.arguments)) :
              SafeRange(m.message, Unwrap(m.arguments)[i])

\* C12: tokenizing never reads a byte at an index >= the buffer length,
\* and every range of a returned Record satisfies 0 <= start <= end <= len
\* with both ends at 0, len or next to an ASCII delimiter, on a character
\* boundary, so no accessor slices out of bounds.
C12_IndexSafety ==
    /\ result # "panic"
    /\ Returned => RecordRangesSafe(msg)

\* A Record with a two-byte character and several arguments.
C12_Witness ==
    /\ Returned
    /\ Has(input, LeadC3)
    /\ IsSome(arguments)
    /\ Len(Unwrap(arguments)) >= 2

(***************************************************************************)
(* command/mod.rs, command/twitch.rs, tag.rs: typed extraction.            *)
(***************************************************************************)
STAR == 42
LetterP == 80
LetterI == 73
LetterO == 79
LetterN == 78
LetterG == 71
LetterR == 82
LetterV == 86
LetterM == 77
LetterS == 83
Digit3 == 51
Digit5 == 53

\* Bounds of the lines used for extraction.
MaxWords == 3
MaxTags == 3

ArgumentIter_next_back_from_front(it) == ArgumentIter_next(it)

\* self.iter.next_back().map(|range| &self.source[range.clone()])
ArgumentIter_next_back(it) ==
    IF it.iter = <<>> THEN [item |-> None, it |-> it]
    ELSE [item |-> Some(Slice(it.source, it.iter[Len(it.iter)])),
          it |-> [it EXCEPT !.iter = SubSeq(@, 1, Len(@) - 1)]]

TagIter_next_back(it) ==
    IF it.iter = <<>> THEN [item |-> None, it |-> it]
    ELSE [item |-> Some(TagIter_item(it.source, it.iter[Len(it.iter)])),
          it |-> [it EXCEPT !.iter = SubSeq(@, 1, Len(@) - 1)]]

name_matches_ignore_case(name, NAME) ==
    LET upper(b) == IF b >= 97 /\ b <= 122 THEN b - 32 ELSE b
    IN /\ Len(name) = Len(NAME)
       /\ \A i \in 1..Len(name) : upper(name[i]) = upper(NAME[i])

\* command == Self::NAME
name_matches(name, NAME) == name = NAME

\* $(let $name = arguments.next()?;)+ from the back instead of the front.
RECURSIVE fields_from_back(_, _)
fields_from_back(k, it) ==
    IF k = 0 THEN Some(<<>>)
    ELSE LET r == ArgumentIter_next_back(it)
         IN IF ~IsSome(r.item) THEN None
            ELSE LET rest == fields_from_back(k - 1, r.it)
                 IN IF IsSome(rest)
                    THEN Some(<<Unwrap(r.item)>> \o Unwrap(rest))
                    ELSE None

\* command!: $(let $name = arguments.next()?;)+ Some($command_name($($name),*))
RECURSIVE fields(_, _)
fields(k, it) ==
    IF k = 0 THEN Some(<<>>)
    ELSE LET r == ArgumentIter_next(it)
         IN IF ~IsSome(r.item) THEN None
            ELSE LET rest == fields(k - 1, r.it)
                 IN IF IsSome(rest)
                    THEN Some(<<Unwrap(r.item)>> \o Unwrap(rest))
                    ELSE None

\* ("PING" => Ping(host))
Ping_NAME == <<LetterP, LetterI, LetterN, LetterG>>
Ping_parse(args) == fields(1, args)

\* ("PONG" => Pong(host))
Pong_NAME == <<LetterP, LetterO, LetterN, LetterG>>
Pong_parse(args) == fields(1, args)

\* ("PRIVMSG" => PrivMsg(target, message))
PrivMsg_NAME == <<LetterP, LetterR, LetterI, LetterV, LetterM, LetterS, LetterG>>
PrivMsg_parse(args) == fields(2, args)

\* char::is_whitespace on the ASCII bytes
is_whitespace(b) == b \in {9, 10, 11, 12, 13, SPACE}

\* str::split_whitespace: the maximal runs of non-whitespace.
RECURSIVE split_whitespace(_)
split_whitespace(s) ==
    IF s = <<>> THEN <<>>
    ELSE IF is_whitespace(s[1]) THEN split_whitespace(Tail(s))
    ELSE LET stops == {i \in 1..Len(s) : is_whitespace(s[i])}
             e == IF stops = {} THEN Len(s) + 1
                  ELSE CHOOSE i \in stops : \A j \in stops : i <= j
         IN <<SubSeq(s, 1, e - 1)>> \o split_whitespace(SubSeq(s, e, Len(s)))

channel_type_swapped(o) ==
    IF IsSome(o)
    THEN IF Unwrap(o) = <<AT>> THEN "Private"
         ELSE IF Unwrap(o) = <<STAR>> THEN "Secret"
         ELSE "Other"
    ELSE "Other"

\* match arguments.next() { Some("@") => Secret, Some("*") => Private, .. }
channel_type_of(o) ==
    IF IsSome(o)
    THEN IF Unwrap(o) = <<AT>> THEN "Secret"
         ELSE IF Unwrap(o) = <<STAR>> THEN "Private"
         ELSE "Other"
    ELSE "Other"

NamesReply_NAME == <<Digit3, Digit5, Digit3>>

\* NamesReply::parse: arguments.rev(), so next() is next_back().
NamesReply_parse(args) ==
    LET r1 == ArgumentIter_next_back(args)
    IN IF ~IsSome(r1.item) THEN None
       ELSE LET r2 == ArgumentIter_next_back(r1.it)
            IN IF ~IsSome(r2.item) THEN None
               ELSE LET r3 == ArgumentIter_next_back(r2.it)
                    IN Some([channel_type |-> channel_type_of(r3.item),
                             channel |-> Unwrap(r2.item),
                             names |-> split_whitespace(Unwrap(r1.item))])

\* <T as Command>::NAME and <T as Command>::parse for the shapes above.
Command_NAME(T) ==
    CASE T = "Ping" -> Ping_NAME
      [] T = "Pong" -> Pong_NAME
      [] T = "PrivMsg" -> PrivMsg_NAME
      [] T = "NamesReply" -> NamesReply_NAME

Command_parse(T, args) ==
    CASE T = "Ping" -> Ping_parse(args)
      [] T = "Pong" -> Pong_parse(args)
      [] T = "PrivMsg" -> PrivMsg_parse(args)
      [] T = "NamesReply" -> NamesReply_parse(args)

\* Command::try_match; called counts the invocations of Self::parse.
Command_try_match(T, name, args) ==
    IF name_matches(name, Command_NAME(T))
    THEN [called |-> 1, value |-> Command_parse(T, args)]
    ELSE [called |-> 0, value |-> None]

\* Message::command::<T>()
Message_command(T, m) == Command_try_match(T, raw_command(m), raw_args(m))

\* Iterator::rfind
RECURSIVE TagIter_rfind(_, _)
TagIter_rfind(it, NAME) ==
    LET r == TagIter_next_back(it)
    IN IF ~IsSome(r.item) THEN None
       ELSE IF Unwrap(r.item).key = NAME THEN r.item
       ELSE TagIter_rfind(r.it, NAME)

\* tags.find(|&(key, _)| key == Self::NAME)
RECURSIVE TagIter_find(_, _)
TagIter_find(it, NAME) ==
    LET r == TagIter_next(it)
    IN IF ~IsSome(r.item) THEN None
       ELSE IF Unwrap(r.item).key = NAME THEN r.item
       ELSE TagIter_find(r.it, NAME)

\* An implementor of Tag for the key 'a' that keeps the value: a tag
\* without a value does not parse.
ValueTag_NAME == <<LetterA>>
ValueTag_parse(tag) == tag

\* Tag::try_match: find(..).and_then(|(_, value)| Self::parse(value))
Tag_try_match(it) ==
    LET found == TagIter_find(it, ValueTag_NAME)
    IN IF IsSome(found)
       THEN [called |-> 1, value |-> ValueTag_parse(Unwrap(found).value)]
       ELSE [called |-> 0, value |-> None]

\* Message::tag::<ValueTag>()
Message_tag(m) == Tag_try_match(raw_tags(m))

(***************************************************************************)
(* The lines whose Records are extracted from.                             *)
(***************************************************************************)
RECURSIVE Joined(_, _)
Joined(ws, sep) ==
    IF ws = <<>> THEN <<>> ELSE sep \o Head(ws) \o Joined(Tail(ws), sep)

CommandNames ==
    {Ping_NAME, <<112, 105, 110, 103>>, PrivMsg_NAME, NamesReply_NAME}
ArgWords == {<<LetterA>>, <<LetterB>>, <<AT>>, <<STAR>>}
Trailers ==
    {<<>>, <<SPACE, COLON>>, <<SPACE, COLON, LetterA>>,
     <<SPACE, COLON, LetterA, SPACE, SPACE, LetterB, SPACE>>}

\* command {' ' word} [' :' trailing]
CommandLines ==
    {c \o Joined(ws, <<SPACE>>) \o t :
        c \in CommandNames, ws \in Strings(ArgWords, MaxWords), t \in Trailers}

TagWords ==
    {<<LetterA>>, <<LetterA, EQUALS, LetterA>>, <<LetterA, EQUALS, LetterB>>,
     <<LetterB, EQUALS, LetterA>>}

\* '@' element {';' element} ' b'
TaggedLines ==
    {<<AT>> \o Tail(Joined(ws, <<SEMI>>)) \o <<SPACE, LetterB>> :
        ws \in Strings(TagWords, MaxTags) \ {<<>>}}

ExtractLines == CommandLines \cup TaggedLines

InitExtract ==
    /\ \E s \in ExtractLines : Entered(s)
    /\ NoExtract
    /\ NoView
    /\ NoArc
    /\ NoScan

\* message.command::<Ping>()
CommandPing ==
    /\ Returned
    /\ LET r == Message_command("Ping", msg)
       IN shape' = "Ping" /\ outcome' = r.value /\ parse_calls' = r.called
    /\ UNCHANGED <<parserVars, iterVars, arcVars, scanVars>>

\* message.command::<PrivMsg>()
CommandPrivMsg ==
    /\ Returned
    /\ LET r == Message_command("PrivMsg", msg)
       IN shape' = "PrivMsg" /\ outcome' = r.value /\ parse_calls' = r.called
    /\ UNCHANGED <<parserVars, iterVars, arcVars, scanVars>>

\* message.command::<NamesReply>()
CommandNamesReply ==
    /\ Returned
    /\ LET r == Message_command("NamesReply", msg)
       IN shape' = "NamesReply" /\ outcome' = r.value /\ parse_calls' = r.called
    /\ UNCHANGED <<parserVars, iterVars, arcVars, scanVars>>

\* message.tag::<ValueTag>()
TagValueTag ==
    /\ Returned
    /\ LET r == Message_tag(msg)
       IN shape' = "ValueTag" /\ outcome' = r.value /\ parse_calls' = r.called
    /\ UNCHANGED <<parserVars, iterVars, arcVars, scanVars>>

NextExtract ==
    \/ Validate \/ ParseTags \/ ParsePrefix \/ ParseCommand \/ ParseArgs
    \/ CommandPing \/ CommandPrivMsg \/ CommandNamesReply \/ TagValueTag

SpecExtract == InitExtract /\ [][NextExtract]_vars

(***************************************************************************)
(* C13..C16                                                                *)
(***************************************************************************)
NameOf(sh) ==
    CASE sh = "Ping" -> Ping_NAME
      [] sh = "PrivMsg" -> PrivMsg_NAME
      [] sh = "NamesReply" -> NamesReply_NAME

CommandShapes == {"Ping", "PrivMsg", "NamesReply"}

\* The arguments of the Record, front to back.
Args == collect_args(raw_args(msg))

\* C13: Command::try_match invokes parse only when the command equals NAME
\* byte for byte; for any other command, one differing only in letter case
\* included, command::<T>() is None and parse is not invoked.
C13_TryMatchExactName ==
    (Returned /\ shape \in CommandShapes) =>
        /\ raw_command(msg) = NameOf(shape) => parse_calls = 1
        /\ raw_command(msg) # NameOf(shape) =>
               (parse_calls = 0 /\ outcome = None)

\* 'ping' with an argument, asked for as Ping.
C13_Witness ==
    /\ Returned
    /\ shape = "Ping"
    /\ raw_command(msg) = <<112, 105, 110, 103>>
    /\ Len(Args) >= 1
    /\ outcome = None

Arity(sh) == IF sh = "Ping" THEN 1 ELSE 2

\* C14: a fixed-arity shape with k fields takes the first k arguments from
\* the front, in order; with fewer than k arguments it is None.
C14_FixedArityFromFront ==
    (Returned /\ shape \in {"Ping", "PrivMsg"}
        /\ raw_command(msg) = NameOf(shape)) =>
        IF Len(Args) >= Arity(shape)
        THEN outcome = Some(SubSeq(Args, 1, Arity(shape)))
        ELSE outcome = None

\* PrivMsg from a Record with more than two, different, arguments.
C14_Witness ==
    /\ Returned
    /\ shape = "PrivMsg"
    /\ raw_command(msg) = PrivMsg_NAME
    /\ Len(Args) >= 3
    /\ Args[1] # Args[2]
    /\ Args[2] # Args[Len(Args)]
    /\ IsSome(outcome)

NonEmpty(w) == w # <<>>

\* C15: NamesReply on a '353' Record: members are the whitespace-split
\* words of the last argument, channel is the second-to-last argument, the
\* channel type comes from the third-to-last argument ('@' Secret, '*'
\* Private, else Other; Other when there is none); None with fewer than
\* two arguments; further leading arguments change nothing.
C15_NamesReplyFromBack ==
    (Returned /\ shape = "NamesReply" /\ raw_command(msg) = NamesReply_NAME) =>
        LET n == Len(Args)
        IN IF n < 2 THEN outcome = None
           ELSE outcome =
                  Some([channel_type |->
                            IF n >= 3 /\ Args[n - 2] = <<AT>> THEN "Secret"
                            ELSE IF n >= 3 /\ Args[n - 2] = <<STAR>> THEN "Private"
                            ELSE "Other",
                        channel |-> Args[n - 1],
                        names |-> SelectSeq(Words(Args[n]), NonEmpty)])

\* A '353' Record with a leading argument, '@', a channel and two members.
C15_Witness ==
    /\ Returned
    /\ shape = "NamesReply"
    /\ raw_command(msg) = NamesReply_NAME
    /\ Len(Args) >= 4
    /\ IsSome(outcome)
    /\ Unwrap(outcome).channel_type = "Secret"
    /\ Len(Unwrap(outcome).names) = 2

\* The tags of the Record, front to back.
Tags == collect_tags(raw_tags(msg))
TagsNamed(NAME) == {i \in 1..Len(Tags) : Tags[i].key = NAME}

\* C16: Tag::try_match looks at the first tag whose key equals NAME only
\* and returns parse of its optional value; None when no tag has the key;
\* when parse of the first match is None, a later tag with the same key is
\* not tried.
C16_FirstMatchingTag ==
    (Returned /\ shape = "ValueTag") =>
        IF TagsNamed(ValueTag_NAME) = {}
        THEN outcome = None /\ parse_calls = 0
        ELSE /\ outcome = ValueTag_parse(Tags[Least(TagsNamed(ValueTag_NAME))].value)
             /\ parse_calls = 1

\* The first 'a' tag has no value, a later one has: the result is None.
C16_Witness ==
    /\ Returned
    /\ shape = "ValueTag"
    /\ Cardinality(TagsNamed(ValueTag_NAME)) >= 2
    /\ \E i \in TagsNamed(ValueTag_NAME) : IsSome(Tags[i].value)
    /\ outcome = None
    /\ parse_calls = 1

(***************************************************************************)
(* arc_slice.rs: the shared buffer behind the clones of one ArcSlice.      *)
(* Each step below is one atomic step of one thread; the steps of          *)
(* different handles interleave freely.                                    *)
(***************************************************************************)
MaxHandles == 3
MaxRefs == 2

\* A handle: st is where it is in its life, src the handle a clone in
\* progress borrows, saw the value its fetch_sub returned, refs the
\* slices obtained from it that are still borrowed.
Handle(st, src) == [st |-> st, src |-> src, saw |-> 0, refs |-> 0]

Ids == 1..Len(handles)
Cloning(i) == \E j \in Ids : handles[j].st = "cloning" /\ handles[j].src = i

fetch_add_skipped(c) == c

fetch_add_twice(c) == c + 2

\* self.count.fetch_add(1, Ordering::Relaxed)
fetch_add(c) == c + 1

fetch_sub_twice(c) == c - 2

\* self.count.fetch_sub(1, Ordering::Release)
fetch_sub(c) == c - 1

last_owner_always(previous) == TRUE

\* if self.count.fetch_sub(1, Ordering::Release) != 1 { return; }
last_owner(previous) == previous = 1

\* ArcSlice::new
InitArc ==
    /\ Entered(<<>>)
    /\ NoExtract
    /\ NoView
    /\ count = 1
    /\ handles = <<Handle("live", 0)>>
    /\ freed = 0
    /\ observed = {}
    /\ NoScan

\* clone: the increment, made through the borrowed handle i.
CloneBegin(i) ==
    /\ handles[i].st = "live"
    /\ Len(handles) < MaxHandles
    /\ count' = fetch_add(count)
    /\ handles' = Append(handles, Handle("cloning", i))
    /\ UNCHANGED <<freed, observed, parserVars, extractVars, iterVars, scanVars>>

\* clone: the new handle is returned and the borrow of its source ends.
CloneEnd(j) ==
    /\ handles[j].st = "cloning"
    /\ handles' = [handles EXCEPT ![j].st = "live", ![j].src = 0]
    /\ UNCHANGED <<count, freed, observed, parserVars, extractVars, iterVars, scanVars>>

\* deref / as_ref: a slice borrowed from handle i.
Deref(i) ==
    /\ handles[i].st = "live"
    /\ handles[i].refs < MaxRefs
    /\ handles' = [handles EXCEPT ![i].refs = @ + 1]
    /\ UNCHANGED <<count, freed, observed, parserVars, extractVars, iterVars, scanVars>>

\* A read through a borrowed slice; observed keeps whether the buffer had
\* been freed when it was read.
Read(i) ==
    /\ handles[i].refs > 0
    /\ observed' = observed \cup {freed > 0}
    /\ UNCHANGED <<count, handles, freed, parserVars, extractVars, iterVars, scanVars>>

\* The end of the borrow of a slice.
Release(i) ==
    /\ handles[i].refs > 0
    /\ handles' = [handles EXCEPT ![i].refs = @ - 1]
    /\ UNCHANGED <<count, freed, observed, parserVars, extractVars, iterVars, scanVars>>

\* drop: the decrement; only an unborrowed handle can be dropped.
DropDec(i) ==
    /\ handles[i].st = "live"
    /\ handles[i].refs = 0
    /\ ~Cloning(i)
    /\ count' = fetch_sub(count)
    /\ handles' = [handles EXCEPT
                      ![i].saw = count,
                      ![i].st = IF last_owner(count) THEN "freeing" ELSE "dropped"]
    /\ UNCHANGED <<freed, observed, parserVars, extractVars, iterVars, scanVars>>

\* drop: fence(Acquire); drop(Box::from_raw(self.data))
DropFree(i) ==
    /\ handles[i].st = "freeing"
    /\ freed' = freed + 1
    /\ handles' = [handles EXCEPT ![i].st = "dropped"]
    /\ UNCHANGED <<count, observed, parserVars, extractVars, iterVars, scanVars>>

NextArc ==
    \E i \in Ids :
        \/ CloneBegin(i) \/ CloneEnd(i)
        \/ Deref(i) \/ Read(i) \/ Release(i)
        \/ DropDec(i) \/ DropFree(i)

SpecArc == InitArc /\ [][NextArc]_vars

\* A thread that has entered the freeing branch of drop runs on.
FairArc == \A i \in 1..MaxHandles : WF_vars(i \in Ids /\ DropFree(i))
SpecArcFair == SpecArc /\ FairArc

(***************************************************************************)
(* C17..C19                                                                *)
(***************************************************************************)
AllDropped == \A i \in Ids : handles[i].st = "dropped"
SawOne == {i \in Ids : handles[i].saw = 1}

\* C17: under every interleaving of clone and drop steps the buffer is
\* freed at most once; when all handles are dropped exactly one drop has
\* observed the previous counter value 1, and it performed the free.
C17_FreedAtMostOnce ==
    /\ freed <= 1
    /\ Cardinality(SawOne) <= 1
    /\ freed = 1 => \E i \in SawOne : handles[i].st = "dropped"
    /\ (handles # <<>> /\ AllDropped) => (Cardinality(SawOne) = 1 /\ freed = 1)

\* Three handles all dropped, the last owner being a clone.
C17_Witness ==
    /\ Len(handles) >= 3
    /\ AllDropped
    /\ freed = 1
    /\ handles[1].saw # 1

\* C18: once the buffer is freed no handle is live, no clone is in
\* progress and no slice is borrowed, so no read sees freed data; the free
\* happens only with the counter at zero.
C18_NoUseAfterFree ==
    /\ freed > 0 =>
          /\ count = 0
          /\ \A i \in Ids : handles[i].st = "dropped" /\ handles[i].refs = 0
    /\ (\E i \in Ids : handles[i].st = "freeing") => count = 0
    /\ TRUE \notin observed

\* The buffer was read through a clone and has been freed since.
C18_Witness ==
    /\ freed = 1
    /\ FALSE \in observed
    /\ Len(handles) >= 2

\* Every created handle has executed the decrement of its drop.
AllDropsEntered ==
    /\ handles # <<>>
    /\ \A i \in Ids : handles[i].st \in {"freeing", "dropped"}
Released == count = 0 /\ freed = 1

\* C19: once every handle is being dropped the buffer is eventually freed,
\* and from then on the counter is 0 and the buffer released.
C19_NoLeak == AllDropsEntered ~> []Released

\* All handles dropped: counter 0, buffer released.
C19_Witness ==
    /\ Len(handles) >= 2
    /\ AllDropped
    /\ Released

(***************************************************************************)
(* command/mod.rs, tag.rs: calls on one view of a Record.                  *)
(***************************************************************************)
MaxCalls == 5

IterLines ==
    {Ping_NAME \o Joined(ws, <<SPACE>>) \o t :
        ws \in Strings(ArgWords, MaxWords), t \in Trailers} \cup TaggedLines

InitIter ==
    /\ \E s \in IterLines : Entered(s)
    /\ NoExtract
    /\ NoView
    /\ NoArc
    /\ NoScan

NoCalls == [front |-> 0, back |-> 0, last |-> "none"]
MoreCalls == calls.front + calls.back < MaxCalls

\* message.raw_args()
RawArgs ==
    /\ Returned
    /\ view' = Some([kind |-> "args", it |-> raw_args(msg)])
    /\ calls' = NoCalls
    /\ last_item' = None
    /\ UNCHANGED <<parserVars, extractVars, arcVars, scanVars>>

\* message.raw_tags()
RawTags ==
    /\ Returned
    /\ view' = Some([kind |-> "tags", it |-> raw_tags(msg)])
    /\ calls' = NoCalls
    /\ last_item' = None
    /\ UNCHANGED <<parserVars, extractVars, arcVars, scanVars>>

Called(kind, r, end) ==
    /\ view' = Some([kind |-> kind, it |-> r.it])
    /\ last_item' = r.item
    /\ calls' = [calls EXCEPT ![end] = @ + 1,
                              !.last = IF end = "front" THEN "next" ELSE "next_back"]
    /\ UNCHANGED <<parserVars, extractVars, arcVars, scanVars>>

\* ArgumentIter::next
ArgsNext ==
    /\ IsSome(view) /\ Unwrap(view).kind = "args" /\ MoreCalls
    /\ Called("args", ArgumentIter_next(Unwrap(view).it), "front")

\* ArgumentIter::next_back
ArgsNextBack ==
    /\ IsSome(view) /\ Unwrap(view).kind = "args" /\ MoreCalls
    /\ Called("args", ArgumentIter_next_back(Unwrap(view).it), "back")

\* TagIter::next
TagsNext ==
    /\ IsSome(view) /\ Unwrap(view).kind = "tags" /\ MoreCalls
    /\ Called("tags", TagIter_next(Unwrap(view).it), "front")

\* TagIter::next_back
TagsNextBack ==
    /\ IsSome(view) /\ Unwrap(view).kind = "tags" /\ MoreCalls
    /\ Called("tags", TagIter_next_back(Unwrap(view).it), "back")

NextIter ==
    \/ Validate \/ ParseTags \/ ParsePrefix \/ ParseCommand \/ ParseArgs
    \/ RawArgs \/ RawTags
    \/ ArgsNext \/ ArgsNextBack \/ TagsNext \/ TagsNextBack

SpecIter == InitIter /\ [][NextIter]_vars

(***************************************************************************)
(* C20                                                                     *)
(***************************************************************************)
\* The ranges the view was made over, and the element at a position.
ViewRanges(kind) ==
    IF kind = "args"
    THEN (IF IsSome(arguments) THEN Unwrap(arguments) ELSE <<>>)
    ELSE (IF IsSome(tags) THEN Unwrap(tags) ELSE <<>>)

ViewElement(kind, k) ==
    LET r == ViewRanges(kind)[k]
    IN IF kind = "args" THEN Sub(input, r.start, r.end)
       ELSE [key |-> Sub(input, r.key.start, r.key.end),
             value |-> IF IsSome(r.value)
                       THEN Some(Sub(input, Unwrap(r.value).start, Unwrap(r.value).end))
                       ELSE None]

\* C20: on a view over n elements, after i calls of next() and j calls of
\* next_back() in any order, the last call returned element i from the
\* front (next) or element j from the back (next_back) while i + j <= n,
\* and None once more than n calls were made; the view keeps the elements
\* in between, so none is returned twice.
C20_DoubleEnded ==
    (IsSome(view) /\ calls.last # "none") =>
        LET kind == Unwrap(view).kind
            n == Len(ViewRanges(kind))
            i == calls.front
            j == calls.back
        IN /\ IF i + j <= n
              THEN last_item = Some(ViewElement(kind,
                                  IF calls.last = "next" THEN i ELSE n - j + 1))
              ELSE last_item = None
           /\ Unwrap(view).it.iter =
                  SubSeq(ViewRanges(kind), i + 1, n - j)

\* Calls from both ends that met in the middle of three or more elements,
\* followed by a call that returned None.
C20_Witness ==
    /\ IsSome(view)
    /\ Len(ViewRanges(Unwrap(view).kind)) >= 3
    /\ calls.front >= 1
    /\ calls.back >= 2
    /\ calls.front + calls.back = Len(ViewRanges(Unwrap(view).kind)) + 1
    /\ last_item = None

(***************************************************************************)
(* message/mod.rs: extraction and iteration mixed on one Record.           *)
(***************************************************************************)
MaxUseWords == 2

UsePrefixes == {<<>>, <<COLON, LetterA, BANG, LetterB, AT, LetterA, SPACE>>}
UseTrailers == {<<>>, <<SPACE, COLON, LetterA>>}

UseLines ==
    {p \o c \o Joined(ws, <<SPACE>>) \o t :
        p \in UsePrefixes,
        c \in {Ping_NAME, PrivMsg_NAME, NamesReply_NAME},
        ws \in Strings({<<LetterA>>, <<LetterB>>}, MaxUseWords),
        t \in UseTrailers}
    \cup {<<AT>> \o Tail(Joined(ws, <<SEMI>>)) \o <<SPACE, LetterB>> :
            ws \in Strings(TagWords, MaxUseWords) \ {<<>>}}

InitUse ==
    /\ \E s \in UseLines : Entered(s)
    /\ NoExtract
    /\ NoView
    /\ NoArc
    /\ NoScan

\* message.prefix()
CallPrefix ==
    /\ Returned
    /\ shape' = "prefix" /\ outcome' = prefix_of(msg) /\ parse_calls' = 0
    /\ UNCHANGED <<parserVars, iterVars, arcVars, scanVars>>

NextUse ==
    \/ Validate \/ ParseTags \/ ParsePrefix \/ ParseCommand \/ ParseArgs
    \/ CommandPing \/ CommandPrivMsg \/ CommandNamesReply \/ TagValueTag
    \/ CallPrefix
    \/ RawArgs \/ RawTags
    \/ ArgsNext \/ ArgsNextBack \/ TagsNext \/ TagsNextBack

SpecUse == InitUse /\ [][NextUse]_vars

(***************************************************************************)
(* C21                                                                     *)
(***************************************************************************)
\* A view was handed out by this step.
NewView == IsSome(view') /\ calls' = NoCalls /\ (view' # view \/ calls' # calls)

\* C21: a step made after parsing (an extraction, a prefix() call, a new
\* view, a next()/next_back() call) leaves the buffer and the ranges of the
\* Record unchanged; a new view is positioned at the full sequence however
\* far other views were consumed; repeating an extraction gives the same
\* result.
C21_RecordUnchanged ==
    [][pc = "done" =>
          /\ UNCHANGED parserVars
          /\ NewView =>
                Unwrap(view').it.iter = ViewRanges(Unwrap(view').kind)
          /\ (shape' = shape /\ shape # "none") =>
                (outcome' = outcome /\ parse_calls' = parse_calls)]_vars

\* PrivMsg extracted on a Record one of whose argument views is partly
\* consumed.
C21_Witness ==
    /\ Returned
    /\ shape = "PrivMsg"
    /\ IsSome(outcome)
    /\ IsSome(view)
    /\ Unwrap(view).kind = "args"
    /\ calls.front >= 1
    /\ Len(Unwrap(view).it.iter) < Len(ViewRanges("args"))

(***************************************************************************)
(* parser.rs: parse_message as one function of the line.                   *)
(***************************************************************************)
Rejected(e) == [result |-> e, value |-> None]

parse_message(s) ==
    IF ~from_utf8(s) THEN Rejected("Utf8Error")
    ELSE LET t == parse_tags(s)
         IN IF t.err # "none" THEN Rejected(t.err)
            ELSE LET p == parse_prefix(s, t.position)
                 IN IF p.err # "none" THEN Rejected(p.err)
                    ELSE LET c == parse_command(s, p.position)
                         IN IF c.err # "none" THEN Rejected(c.err)
                            ELSE LET a == parse_args(s, c.position)
                                 IN IF a.err # "none" THEN Rejected(a.err)
                                    ELSE [result |-> "Ok",
                                          value |-> Some(Message(s, t.value, p.value,
                                                                 c.value, a.value))]

(***************************************************************************)
(* C22                                                                     *)
(***************************************************************************)
\* The line with byte b inserted after its first k bytes.
Insert(s, k, b) == SubSeq(s, 1, k) \o <<b>> \o SubSeq(s, k + 1, Len(s))

\* Characters that end neither a tag value nor a command.
PadBytes == {LetterA, EQUALS, COLON, AT, BANG}

\* What the accessors give, with the command and the values of the tags
\* as given.
Structure(m, cmd, tgs) ==
    [tagged |-> IsSome(m.tags), tags |-> tgs,
     prefix |-> prefix_of(m), raw_prefix |-> raw_prefix(m),
     command |-> cmd,
     with_args |-> IsSome(m.arguments), args |-> collect_args(raw_args(m))]

StructureOf(m) == Structure(m, raw_command(m), collect_tags(raw_tags(m)))

\* The Record's structure with b appended to the command.
LongerCommand(b) == Structure(msg, raw_command(msg) \o <<b>>, Tags)

\* The Record's structure with b appended to the value of tag i.
LongerValue(i, b) ==
    Structure(msg, raw_command(msg),
              [Tags EXCEPT ![i].value = Some(Unwrap(@) \o <<b>>)])

AcceptedAs(line, st) ==
    LET r == parse_message(line)
    IN r.result = "Ok" /\ StructureOf(Unwrap(r.value)) = st

\* C22: parse_message returns Ok, a UTF-8 error or unexpected end of input
\* and nothing about length; when a line is accepted, the line with one
\* more non-delimiter character at the end of the command or of a tag
\* value is accepted with the same structure and the longer substring (the
\* command being one that has bytes to append to).
C22_NoLengthLimit ==
    /\ result \in {"pending", "Ok", "Utf8Error", "UnexpectedEndOfInput"}
    /\ Returned =>
          /\ parse_message(input) = [result |-> "Ok", value |-> Some(msg)]
          /\ \A b \in PadBytes :
                raw_command(msg) # <<>> =>
                    AcceptedAs(Insert(input, command.end, b), LongerCommand(b))
          /\ \A i \in 1..Len(Tags) : \A b \in PadBytes :
                IsSome(Tags[i].value) =>
                    AcceptedAs(Insert(input, Unwrap(Unwrap(tags)[i].value).end, b),
                               LongerValue(i, b))

\* An accepted line with a tag value and a command.
C22_Witness ==
    /\ Returned
    /\ Len(Tags) >= 1
    /\ IsSome(Tags[1].value)
    /\ raw_command(msg) # <<>>
    /\ AcceptedAs(Insert(input, command.end, LetterA), LongerCommand(LetterA))

(***************************************************************************)
(* parser.rs, iteration by iteration: one step per loop iteration, per     *)
(* loop exit and per phase entry.  scan.p is the position, scan.from the   *)
(* position at which the current loop was entered, scan.iters the          *)
(* iterations of the current loop, scan.total those of all loops.          *)
(***************************************************************************)
InitScan ==
    /\ \E s \in Lines : Entered(s)
    /\ NoExtract
    /\ NoView
    /\ NoArc
    /\ scan = [at |-> "from_utf8", p |-> 0, from |-> 0, iters |-> 0,
               total |-> 0, steps |-> 0, result |-> "pending"]

\* parse_message returns.
ScanDone(res) ==
    [scan EXCEPT !.at = "done", !.result = res, !.steps = @ + 1]

\* Control goes on at label at with position q; a negative q is the error
\* that the ? operator returns.
ScanTo(at, q) ==
    IF q < 0 THEN ScanDone(Err(q).err)
    ELSE [scan EXCEPT !.at = at, !.p = q, !.from = q, !.iters = 0,
                      !.steps = @ + 1]

\* The body of the current loop has run and left the position at q.
ScanIterate(q) ==
    IF q < 0
    THEN [scan EXCEPT !.at = "done", !.result = Err(q).err,
                      !.iters = @ + 1, !.total = @ + 1, !.steps = @ + 1]
    ELSE [scan EXCEPT !.p = q, !.iters = @ + 1, !.total = @ + 1,
                      !.steps = @ + 1]

ScanFrame == UNCHANGED <<parserVars, extractVars, iterVars, arcVars>>

\* std::str::from_utf8(message.as_ref())?
ScanValidate ==
    /\ scan.at = "from_utf8"
    /\ scan' = IF from_utf8(input) THEN ScanTo("parse_tags", 0)
               ELSE ScanDone("Utf8Error")
    /\ ScanFrame

\* parse_tags up to its loop.
ScanTagsEnter ==
    /\ scan.at = "parse_tags"
    /\ scan' = IF Len(input) = 0 THEN ScanDone("UnexpectedEndOfInput")
               ELSE IF At(input, 0) = AT
               THEN ScanTo("key_loop", move_next(0, Len(input)))
               ELSE ScanTo("parse_prefix", 0)
    /\ ScanFrame

\* One test of the key loop: its body, or its exit and the skip of '='.
ScanKey ==
    /\ scan.at = "key_loop"
    /\ LET p == scan.p
           len == Len(input)
       IN scan' =
            IF p >= len THEN ScanDone("panic")
            ELSE IF key_continues(At(input, p))
            THEN (IF At(input, p) = SPACE THEN ScanDone("UnexpectedEndOfInput")
                  ELSE ScanIterate(move_next(p, len)))
            ELSE IF At(input, p) = EQUALS
            THEN ScanTo("value_loop", move_next(p, len))
            ELSE ScanTo("value_loop", p)
    /\ ScanFrame

\* One test of the value loop: its body, or its exit, the push and the
\* move past ' ' (break) or ';' (next tag).
ScanValue ==
    /\ scan.at = "value_loop"
    /\ LET p == scan.p
           len == Len(input)
       IN scan' =
            IF p >= len THEN ScanDone("panic")
            ELSE IF value_continues(At(input, p))
            THEN ScanIterate(move_next(p, len))
            ELSE IF At(input, p) = SPACE
            THEN ScanTo("parse_prefix", move_next(p, len))
            ELSE ScanTo("key_loop", move_next(p, len))
    /\ ScanFrame

\* parse_prefix up to its first loop.
ScanPrefixEnter ==
    /\ scan.at = "parse_prefix"
    /\ LET p == scan.p
           len == Len(input)
       IN scan' =
            IF p >= len THEN ScanDone("UnexpectedEndOfInput")
            ELSE IF At(input, p) = COLON
            THEN ScanTo("origin_loop", move_next(p, len))
            ELSE ScanTo("parse_command", p)
    /\ ScanFrame

\* What follows the origin and the user: '!user', '@host', or the end of
\* the prefix.
ScanAfterOrigin(p, len) ==
    IF At(input, p) = BANG THEN ScanTo("user_loop", move_next(p, len))
    ELSE IF At(input, p) = AT THEN ScanTo("host_loop", move_next(p, len))
    ELSE ScanTo("parse_command", move_next(p, len))

ScanAfterUser(p, len) ==
    IF At(input, p) = AT THEN ScanTo("host_loop", move_next(p, len))
    ELSE ScanTo("parse_command", move_next(p, len))

ScanOrigin ==
    /\ scan.at = "origin_loop"
    /\ LET p == scan.p
           len == Len(input)
       IN scan' =
            IF p >= len THEN ScanDone("panic")
            ELSE IF origin_continues(At(input, p))
            THEN ScanIterate(move_next(p, len))
            ELSE ScanAfterOrigin(p, len)
    /\ ScanFrame

ScanUser ==
    /\ scan.at = "user_loop"
    /\ LET p == scan.p
           len == Len(input)
       IN scan' =
            IF p >= len THEN ScanDone("panic")
            ELSE IF user_continues(At(input, p))
            THEN ScanIterate(move_next(p, len))
            ELSE ScanAfterUser(p, len)
    /\ ScanFrame

ScanHost ==
    /\ scan.at = "host_loop"
    /\ LET p == scan.p
           len == Len(input)
       IN scan' =
            IF p >= len THEN ScanDone("panic")
            ELSE IF host_continues(At(input, p))
            THEN ScanIterate(move_next(p, len))
            ELSE ScanTo("parse_command", move_next(p, len))
    /\ ScanFrame

\* parse_command up to its loop.
ScanCommandEnter ==
    /\ scan.at = "parse_command"
    /\ scan' = IF scan.p >= Len(input) THEN ScanDone("UnexpectedEndOfInput")
               ELSE ScanTo("command_loop", command_skip(input, scan.p))
    /\ ScanFrame

\* while position < len && input[position] != b' ' { position += 1; }
ScanCommand ==
    /\ scan.at = "command_loop"
    /\ LET p == scan.p
           len == Len(input)
       IN scan' =
            IF p < len /\ At(input, p) # SPACE THEN ScanIterate(p + 1)
            ELSE IF p < len /\ At(input, p) = SPACE
            THEN ScanTo("parse_args", move_next(p, len))
            ELSE ScanTo("parse_args", p)
    /\ ScanFrame

\* parse_args up to its loop.
ScanArgsEnter ==
    /\ scan.at = "parse_args"
    /\ scan' = IF scan.p >= Len(input) THEN ScanDone("Ok")
               ELSE ScanTo("args_loop", scan.p)
    /\ ScanFrame

\* One iteration of the loop of parse_args.
ScanArgs ==
    /\ scan.at = "args_loop"
    /\ LET p == scan.p
           len == Len(input)
       IN scan' =
            IF p >= len THEN ScanDone("panic")
            ELSE IF starts_trailing(input, p)
            THEN [ScanIterate(p + 1) EXCEPT !.at = "done", !.result = "Ok"]
            ELSE IF p + 1 >= len
            THEN [ScanIterate(p + 1) EXCEPT !.at = "done", !.result = "Ok"]
            ELSE ScanIterate(p + 1)
    /\ ScanFrame

NextScan ==
    \/ ScanValidate
    \/ ScanTagsEnter \/ ScanKey \/ ScanValue
    \/ ScanPrefixEnter \/ ScanOrigin \/ ScanUser \/ ScanHost
    \/ ScanCommandEnter \/ ScanCommand
    \/ ScanArgsEnter \/ ScanArgs

SpecScan == InitScan /\ [][NextScan]_vars

(***************************************************************************)
(* C23                                                                     *)
(***************************************************************************)
\* The step ran the body of a loop.
BodyRan == scan'.iters = scan.iters + 1

\* The number of phase entries and loop exits a parse can make is at most
\* one per byte plus the five phases.
ScanBounded ==
    /\ scan.p <= Len(input)
    /\ scan.p >= scan.from + scan.iters \/ scan.at = "done"
    /\ scan.iters <= Len(input)
    /\ scan.total <= Len(input)
    /\ scan.steps <= 2 * Len(input) + 5

\* The finished scan ends as parse_message does.
ScanAgrees ==
    scan.at = "done" =>
        /\ scan.result = parse_message(input).result
        /\ scan.result \in {"Ok", "Utf8Error", "UnexpectedEndOfInput"}

\* C23: every iteration of a scanning loop moves the position forward (or
\* returns the error); a loop runs at most len iterations, all loops
\* together at most len, and the parse ends, with the result or the error
\* of parse_message, within a number of steps bounded by len.
C23_Terminates ==
    /\ [][BodyRan => (scan'.p > scan.p \/ scan'.at = "done")]_vars
    /\ [](ScanBounded /\ ScanAgrees)

\* A malformed tagged line that ended in an error after the key and value
\* loops had both iterated.
C23_Witness ==
    /\ scan.at = "done"
    /\ scan.result = "UnexpectedEndOfInput"
    /\ scan.total >= 3
    /\ Len(input) >= 1
    /\ At(input, 0) = AT
    /\ Has(input, EQUALS)

(***************************************************************************)
(* message/client.rs: the outbound PONG constructor.                       *)
(***************************************************************************)
MaxHostLen == 3

\* The &str values given to pong.
Hosts ==
    {h \in Strings({LetterA, LetterB, COLON, SPACE, LeadC3, ContB0}, MaxHostLen) :
        from_utf8(h)}

\* format!("PONG {}", host)
pong_text(host) == Pong_NAME \o <<SPACE>> \o host

\* pong(host): Message::try_from of the formatted text.
InitPong ==
    /\ \E host \in Hosts : Entered(pong_text(host))
    /\ NoExtract
    /\ NoView
    /\ NoArc
    /\ NoScan

\* message.command::<Pong>()
CommandPong ==
    /\ Returned
    /\ LET r == Message_command("Pong", msg)
       IN shape' = "Pong" /\ outcome' = r.value /\ parse_calls' = r.called
    /\ UNCHANGED <<parserVars, iterVars, arcVars, scanVars>>

NextPong ==
    \/ Validate \/ ParseTags \/ ParsePrefix \/ ParseCommand \/ ParseArgs
    \/ CommandPong

SpecPong == InitPong /\ [][NextPong]_vars

(***************************************************************************)
(* C24                                                                     *)
(***************************************************************************)
\* The host the line of this behaviour was formatted from.
HostGiven == SubSeq(input, Len(Pong_NAME) + 2, Len(input))

\* C24: for a non-empty host without a space, pong(host) succeeds and the
\* Pong shape extracted from the Message is exactly host.
C24_PongRoundTrip ==
    (pc = "done" /\ HostGiven # <<>> /\ ~Has(HostGiven, SPACE)) =>
        /\ result = "Ok"
        /\ shape = "Pong" => outcome = Some(<<HostGiven>>)

(***************************************************************************)
(* C25                                                                     *)
(***************************************************************************)
\* 'CMD ': after the optional tag section and prefix the line is one
\* non-empty token without a space, then one space that is the last byte.
C25_Token(s) == Sub(AfterPrefix(s), 0, Len(AfterPrefix(s)) - 1)
C25_Line(s) ==
    /\ IsText(s)
    /\ Len(AfterPrefix(s)) >= 2
    /\ AfterPrefix(s)[Len(AfterPrefix(s))] = SPACE
    /\ ~Has(C25_Token(s), SPACE)

\* The tag section, if any, ends in an element with a '='.
C25_TagsClosed(s) ==
    HasTagSection(s) => Has(TagElements(s)[Len(TagElements(s))], EQUALS)

\* C25: a line whose command token is followed by one space that is the
\* last byte is rejected with UnexpectedEndOfInput; the same line without
\* that space is accepted, with that command and no arguments.
C25_SpaceNeedsByte ==
    (pc = "done" /\ C25_Line(input)) =>
        /\ result = "UnexpectedEndOfInput"
        /\ C25_TagsClosed(input) =>
              LET r == parse_message(Sub(input, 0, Len(input) - 1))
              IN /\ r.result = "Ok"
                 /\ raw_command(Unwrap(r.value)) = C25_Token(input)
                 /\ Unwrap(r.value).arguments = None

\* ':origin CMD ' was rejected.
C25_Witness ==
    /\ Failed("UnexpectedEndOfInput")
    /\ C25_Line(input)
    /\ HasPrefix(input)
    /\ PrefixText(input) # <<>>

(***************************************************************************)
(* C26                                                                     *)
(***************************************************************************)
\* Handles whose drop has not decremented yet, and clones that have
\* incremented but are not yet returned.
NotDecremented == {i \in Ids : handles[i].st = "live"}
ClonesInProgress == {i \in Ids : handles[i].st = "cloning"}

\* C26: the counter equals the number of handles whose drop has not yet
\* decremented plus the number of clones in progress; it is at least 1
\* while a live handle exists and never goes below zero.
C26_CounterCountsOwners ==
    /\ count = Cardinality(NotDecremented) + Cardinality(ClonesInProgress)
    /\ NotDecremented # {} => count >= 1
    /\ count >= 0

\* A clone in progress next to a live and a dropped handle.
C26_Witness ==
    /\ ClonesInProgress # {}
    /\ NotDecremented # {}
    /\ \E i \in Ids : handles[i].st = "dropped"
    /\ count = 2

(***************************************************************************)
(* C27                                                                     *)
(***************************************************************************)
\* The argument section of the Record: the text after the command and the
\* space that follows it.
ArgSection == Sub(input, command.end + 1, Len(input))

RECURSIVE JoinWith(_, _)
JoinWith(ws, sep) ==
    IF Len(ws) = 1 THEN ws[1] ELSE ws[1] \o <<sep>> \o JoinWith(Tail(ws), sep)

\* C27: a non-empty argument section without ':' that has s spaces gives
\* exactly s + 1 arguments which, joined by single spaces, are the
\* section, so consecutive spaces and a space at the end give empty
\* arguments; a line that ends right after the command has no arguments.
C27_SplitOnEverySpace ==
    Returned =>
        /\ (ArgSection # <<>> /\ ~Has(ArgSection, COLON)) =>
              /\ Len(Args) = Count(ArgSection, SPACE) + 1
              /\ JoinWith(Args, SPACE) = ArgSection
        /\ command.end = Len(input) => (arguments = None /\ Args = <<>>)

\* 'CMD x  ': an argument, then an empty one between two spaces and an
\* empty one after the space at the end.
C27_Witness ==
    /\ Returned
    /\ ~Has(ArgSection, COLON)
    /\ Len(Args) >= 3
    /\ Args[1] # <<>>
    /\ Args[Len(Args) - 1] = <<>>
    /\ Args[Len(Args)] = <<>>

====
